---- MODULE Spec2Model ----
(***************************************************************************)
(* Ticket-range allocation and reconciliation: the events / tickets /      *)
(* sales tables, the update_event_bulk_range function, CSV ingestion       *)
(* (Upload.handleUpload), the cashier sale (Cashier.handleSubmit) and the  *)
(* gate scan (Scanner.handleScan).  One event row is modelled; every       *)
(* request to the store is one atomic step, and the steps of concurrent    *)
(* handlers interleave.                                                    *)
(***************************************************************************)
EXTENDS Integers, FiniteSets, Sequences, TLC

\* ------------------------------------------------------------------ bounds
\* largest ticket number of the ledger model
MaxNum == 2
\* largest ticket number of the allocator model
AllocMax == 4

\* ------------------------------------------------------------- SQL values
\* NULL of an INTEGER column (ticket numbers and range bounds are >= 0)
NULL == -1
\* NULL of a TEXT column
NULLTEXT == "<null>"

Min(a, b) == IF a <= b THEN a ELSE b
Max(a, b) == IF a >= b THEN a ELSE b
Abs(a) == IF a < 0 THEN -a ELSE a
\* LEAST / GREATEST / COALESCE of the function body (no NULL reaches LEAST
\* or GREATEST: both are called under IS NOT NULL)
\* (mutant for C27: LEAST returns its second argument)
LEAST_second(a, b) == b
LEAST(a, b) == Min(a, b)
GREATEST(a, b) == Max(a, b)
\* (mutant for C23: the stored value is not kept when the argument is NULL)
COALESCE_firstOnly(a, b) == a
COALESCE(a, b) == IF a # NULLTEXT THEN a ELSE b

\* no row in the events table
NoEvent == [exists |-> FALSE]

\* a row of public.events (the columns the operations read or write)
EventRow(rs, re, bs, be, bn, bm, bp) ==
  [exists |-> TRUE, range_start |-> rs, range_end |-> re,
   bulk_sold_range_start |-> bs, bulk_sold_range_end |-> be,
   bulk_buyer_name |-> bn, bulk_buyer_email |-> bm, bulk_buyer_phone |-> bp]

\* CHECK (valid_bulk_range) of public.events.  A CHECK rejects a row only
\* when its expression is false: a comparison with a NULL column is unknown,
\* and an unknown result is accepted.
valid_bulk_range(e) ==
  LET bs == e.bulk_sold_range_start
      be == e.bulk_sold_range_end
  IN  \/ (bs = NULL /\ be = NULL)
      \/ ~ \/ (bs # NULL /\ ~(bs >= e.range_start))
            \/ (be # NULL /\ ~(be <= e.range_end))
            \/ (bs # NULL /\ be # NULL /\ ~(bs <= be))

\* a row is accepted by the events table: the CHECK is evaluated where the
\* constraint is installed
RowAccepted(installed, e) == installed => valid_bulk_range(e)

\* the gap size of the RAISE EXCEPTION of update_event_bulk_range
GapSize(cs, ce, s, t) == LEAST(Abs(s - ce - 1), Abs(cs - t - 1))

\* the overlap-or-adjacency test of update_event_bulk_range
\* (mutant for C9: adjacency is not accepted, only overlap)
Adjacent_overlapOnly(cs, ce, s, t) == s <= ce /\ t >= cs
Adjacent(cs, ce, s, t) == s <= ce + 1 /\ t >= cs - 1

\* the out-of-range test of update_event_bulk_range
\* (mutant for C10: the end of the proposal is not compared)
OutsideEvent_startOnly(e, s, t) == s < e.range_start
OutsideEvent(e, s, t) == s < e.range_start \/ t > e.range_end

\* the merged interval of update_event_bulk_range
\* (mutant for C8: the new interval replaces the stored one)
MergedRange_replace(cs, ce, s, t) == <<s, t>>
MergedRange(cs, ce, s, t) == <<LEAST(cs, s), GREATEST(ce, t)>>

\* RAISE EXCEPTION in update_event_bulk_range, or an UPDATE the table
\* rejects: the function ends with outcome k and the row e is as it was
\* before the call
\* (mutant for C25: the bulk range of the row is cleared)
Raised_bulkCleared(e, k, g) ==
  [kind |-> k, gap |-> g,
   ev |-> IF e.exists THEN [e EXCEPT !.bulk_sold_range_start = NULL,
                                     !.bulk_sold_range_end = NULL]
                      ELSE e]
Raised(e, k, g) == [kind |-> k, gap |-> g, ev |-> e]

\* public.update_event_bulk_range as a function of the locked row e:
\* the outcome (kind), the row after the call and the reported gap size
update_event_bulk_range(installed, e, s, t, name, email, phone) ==
  LET fail(k, g) == Raised(e, k, g)
      cs == e.bulk_sold_range_start
      ce == e.bulk_sold_range_end
      write(row) == IF RowAccepted(installed, row)
                      THEN [kind |-> "ok", ev |-> row, gap |-> 0]
                      ELSE fail("CheckViolation", 0)
  IN  IF ~e.exists THEN fail("EventNotFound", 0)
      ELSE IF OutsideEvent(e, s, t) THEN fail("OutOfBounds", 0)
      ELSE IF s > t THEN fail("InvalidInterval", 0)
      ELSE IF cs # NULL /\ ce # NULL
        THEN IF Adjacent(cs, ce, s, t)
               THEN LET m == MergedRange(cs, ce, s, t)
                    IN  write([e EXCEPT !.bulk_sold_range_start = m[1],
                                        !.bulk_sold_range_end = m[2],
                                        !.bulk_buyer_name = name,
                                        !.bulk_buyer_email = COALESCE(email, e.bulk_buyer_email),
                                        !.bulk_buyer_phone = COALESCE(phone, e.bulk_buyer_phone)])
               ELSE fail("DiscontinuousRange", GapSize(cs, ce, s, t))
        ELSE write([e EXCEPT !.bulk_sold_range_start = s,
                             !.bulk_sold_range_end = t,
                             !.bulk_buyer_name = name,
                             !.bulk_buyer_email = email,
                             !.bulk_buyer_phone = phone])

\* ------------------------------------------------------------- the store
VARIABLES
  constraint_installed, \* the events table carries CHECK valid_bulk_range
  event,                \* the row of public.events, or NoEvent
  lock,                 \* the transaction holding the FOR UPDATE row lock
  tickets,              \* public.tickets of the event, by ticket_number
  created,              \* rows ever inserted per ticket_number (row ids)
  sales,                \* public.sales: rows per ticket
  cashier,              \* Cashier page per terminal: cached events, request
  scanner,              \* Scanner page per terminal: cached events, request
  up,                   \* Upload page: cached events, upload in progress
  rpc,                  \* callers of update_event_bulk_range
  accepted,             \* hull of the intervals update_event_bulk_range has accepted
  alloc,                \* allocator runs on one event row (SpecAlloc)
  dashboard             \* Dashboard page: event selection and stats shown

vars == <<constraint_installed, event, lock, tickets, created, sales,
          cashier, scanner, up, rpc, accepted, alloc, dashboard>>

Nums == 1..MaxNum
Cashiers == {"c1", "c2"}
Scanners == {"s1", "s2"}
Callers == {"r1", "r2"}
NoOne == "-"

\* sales rows one ticket may collect, rows a cashier may insert for one
\* ticket_number, and uploads the admin runs
MaxSales == 2
MaxUploads == 2
MaxGen == 1

\* buyer the Cashier form supplies
CashierBuyer == "walk-in"

NoTicket == [exists |-> FALSE]

\* a row of public.tickets
TicketRow(i, st, ty, bn, sb) ==
  [exists |-> TRUE, id |-> i, status |-> st, sale_type |-> ty,
   buyer_name |-> bn, scanned_by |-> sb]

\* JavaScript truthiness of a nullable number column: null and 0 are falsy
Truthy(x) == x # NULL /\ x # 0

\* the event has a bulk range as the pages test it
HasBulk(e) == Truthy(e.bulk_sold_range_start) /\ Truthy(e.bulk_sold_range_end)

\* Cashier.isTicketInBulkRange
isTicketInBulkRange(ticketNum, e) ==
  IF ~HasBulk(e) THEN FALSE
  ELSE ticketNum >= e.bulk_sold_range_start /\ ticketNum <= e.bulk_sold_range_end

NoRange == [none |-> TRUE]
Range(a, b) == [none |-> FALSE, start |-> a, end |-> b]

\* Cashier.getAvailableRange, the variant returning the largest range
getAvailableRange(e) ==
  IF ~HasBulk(e) THEN Range(e.range_start, e.range_end)
  ELSE LET bulkStart == e.bulk_sold_range_start
           bulkEnd == e.bulk_sold_range_end
           eventStart == e.range_start
           eventEnd == e.range_end
           beforeBulk == IF bulkStart > eventStart
                           THEN Range(eventStart, bulkStart - 1) ELSE NoRange
           afterBulk == IF bulkEnd < eventEnd
                          THEN Range(bulkEnd + 1, eventEnd) ELSE NoRange
       IN  IF bulkStart <= eventStart /\ bulkEnd >= eventEnd THEN NoRange
           ELSE IF ~beforeBulk.none /\ ~afterBulk.none
             THEN IF (afterBulk.end - afterBulk.start + 1)
                       >= (beforeBulk.end - beforeBulk.start + 1)
                    THEN afterBulk ELSE beforeBulk
           ELSE IF ~beforeBulk.none THEN beforeBulk
           ELSE afterBulk

\* Cashier.getAvailableRange, the variant returning the first range
getAvailableRangeFirst(e) ==
  IF e.range_start = 0 /\ e.range_end = 0 THEN NoRange
  ELSE IF ~HasBulk(e) THEN Range(e.range_start, e.range_end)
  ELSE IF e.range_start < e.bulk_sold_range_start
    THEN Range(e.range_start, e.bulk_sold_range_start - 1)
  ELSE IF e.bulk_sold_range_end < e.range_end
    THEN Range(e.bulk_sold_range_end + 1, e.range_end)
  ELSE NoRange

\* ------------------------------------------------------------ Upload page
\* buyer the Upload form supplies for the bulk partition
BulkBuyer == "bulk"

\* bulkSoldCount, availableCreatedCount and failedCount are the counters of
\* handleUpload, shown as uploadResults when the upload has ended (one error
\* string is pushed with every increment of failedCount)
UpIdle == [pc |-> "idle", events |-> NoEvent, bulk |-> {}, avail |-> {},
           res |-> "none", uploads |-> 0,
           bulkSoldCount |-> 0, availableCreatedCount |-> 0, failedCount |-> 0]

\* Upload.loadEvents / Cashier.loadEvents / Scanner.loadEvents: the page's
\* events state is replaced when the select returns a row
loadEvents(cachedEvents) == IF event.exists THEN event ELSE cachedEvents

\* Upload.handleCreateEvent: insert the event with range 0-0 and the bulk
\* range of the form (bulkStart >= 1, bulkStart <= bulkEnd), then loadEvents
handleCreateEvent(bulkStart, bulkEnd) ==
  /\ ~event.exists
  /\ up.pc = "idle"
  /\ bulkStart >= 1 /\ bulkStart <= bulkEnd
  /\ LET row == EventRow(0, 0, bulkStart, bulkEnd, NULLTEXT, NULLTEXT, NULLTEXT)
     IN  IF RowAccepted(constraint_installed, row)
           THEN /\ event' = row
                /\ up' = [up EXCEPT !.events = row, !.res = "created"]
           ELSE /\ event' = event
                /\ up' = [up EXCEPT !.res = "CreateEventFailed"]
  /\ UNCHANGED <<constraint_installed, lock, tickets, created, sales,
                 cashier, scanner, rpc, accepted, alloc, dashboard>>

\* Upload.loadEvents on mount of the page
UploadLoadEvents ==
  /\ up.pc = "idle"
  /\ event.exists
  /\ up.events # event
  /\ up' = [up EXCEPT !.events = event]
  /\ UNCHANGED <<constraint_installed, event, lock, tickets, created, sales,
                 cashier, scanner, rpc, accepted, alloc, dashboard>>

SetMin(S) == CHOOSE x \in S : \A y \in S : x <= y
SetMax(S) == CHOOSE x \in S : \A y \in S : x >= y

\* the filter of handleUpload that takes a row of the file to the bulk rows
\* (mutant for C26: the end of the bulk range is not compared)
InBulkPartition_startOnly(n, bulkStart, bulkEnd) == n >= bulkStart
InBulkPartition(n, bulkStart, bulkEnd) == n >= bulkStart /\ n <= bulkEnd

\* csvMin and csvMax of handleUpload: the first and the last of the sorted
\* ticket numbers of the file
\* (mutant for C21: the range end is not taken from the file)
CsvBounds_minOnly(csv) == <<SetMin(csv), SetMin(csv)>>
CsvBounds(csv) == <<SetMin(csv), SetMax(csv)>>

\* Upload.handleUpload up to its first write: the guards of the form, the
\* parsed rows (csv: the ticket numbers of the file), and the update of the
\* event range to the minimum and maximum of the file.  The rows are split
\* by the bulk range of the page's cached event.
handleUpload(csv, uploadBulkTickets, createAvailableTickets) ==
  /\ up.pc = "idle"
  /\ up.uploads < MaxUploads
  /\ up.events.exists
  /\ uploadBulkTickets \/ createAvailableTickets
  /\ HasBulk(up.events)
  /\ lock = NoOne
  /\ event.exists
  /\ IF csv = {}
       THEN /\ up' = [up EXCEPT !.res = "NoValidTickets"]
            /\ event' = event
       ELSE LET bulkStart == up.events.bulk_sold_range_start
                bulkEnd == up.events.bulk_sold_range_end
                row == [event EXCEPT !.range_start = CsvBounds(csv)[1],
                                     !.range_end = CsvBounds(csv)[2]]
                bulkTickets == {n \in csv : InBulkPartition(n, bulkStart, bulkEnd)}
                availableTicketsData == {n \in csv : n < bulkStart \/ n > bulkEnd}
            IN  IF RowAccepted(constraint_installed, row)
                  THEN /\ event' = row
                       /\ up' = [up EXCEPT
                             !.pc = "bulk",
                             !.uploads = @ + 1,
                             !.bulkSoldCount = 0,
                             !.availableCreatedCount = 0,
                             !.failedCount = 0,
                             !.bulk = IF uploadBulkTickets THEN bulkTickets ELSE {},
                             !.avail = IF createAvailableTickets
                                         THEN availableTicketsData ELSE {},
                             !.res = "none"]
                  ELSE /\ event' = event
                       /\ up' = [up EXCEPT !.res = "UpdateRangeFailed"]
  /\ UNCHANGED <<constraint_installed, lock, tickets, created, sales,
                 cashier, scanner, rpc, accepted, alloc, dashboard>>

\* the row an upsert on (ticket_number, event_id) leaves: the conflicting
\* row keeps its id and scan columns and takes the columns of the payload
UpsertBulk(n) ==
  IF tickets[n].exists
    THEN [tickets[n] EXCEPT !.status = "sold", !.sale_type = "bulk",
                            !.buyer_name = BulkBuyer]
    ELSE TicketRow(created[n] + 1, "sold", "bulk", BulkBuyer, NULLTEXT)

\* Upload.handleUpload STEP 1, the batch upsert of the bulk rows (one batch:
\* the file has fewer than 100 rows)
UploadBulkBatch ==
  /\ up.pc = "bulk"
  /\ \/ /\ tickets' = [n \in Nums |-> IF n \in up.bulk THEN UpsertBulk(n) ELSE tickets[n]]
        /\ created' = [n \in Nums |-> IF n \in up.bulk /\ ~tickets[n].exists
                                        THEN created[n] + 1 ELSE created[n]]
        /\ up' = [up EXCEPT !.pc = "avail", !.bulk = {},
                            !.bulkSoldCount = @ + Cardinality(up.bulk)]
     \/ \* the batch request returns an error: per-row retry
        /\ up.bulk # {}
        /\ up' = [up EXCEPT !.pc = "bulkrows"]
        /\ UNCHANGED <<tickets, created>>
  /\ UNCHANGED <<constraint_installed, event, lock, sales,
                 cashier, scanner, rpc, accepted, alloc, dashboard>>

\* Upload.handleUpload STEP 1, per-row retry: one upsert per row, in file
\* order; a request that returns an error writes nothing.  The result of
\* the awaited request is not read: the row is counted as sold either way,
\* and the catch that counts a failure is entered by a thrown exception
\* only, which a request that resolves with an error is not.
UploadBulkRow ==
  /\ up.pc = "bulkrows"
  /\ LET n == SetMin(up.bulk)
         rest == up.bulk \ {n}
     IN  /\ \/ /\ tickets' = [tickets EXCEPT ![n] = UpsertBulk(n)]
               /\ created' = [created EXCEPT ![n] = IF tickets[n].exists THEN @ ELSE @ + 1]
            \/ UNCHANGED <<tickets, created>>
         /\ up' = [up EXCEPT !.bulk = rest,
                             !.bulkSoldCount = @ + 1,
                             !.pc = IF rest = {} THEN "avail" ELSE "bulkrows"]
  /\ UNCHANGED <<constraint_installed, event, lock, sales,
                 cashier, scanner, rpc, accepted, alloc, dashboard>>

\* Upload.handleUpload STEP 2, the batch insert of the available rows: the
\* insert is one statement, a unique violation on (ticket_number, event_id)
\* rejects the whole batch
UploadAvailBatch ==
  /\ up.pc = "avail"
  /\ \/ /\ \A n \in up.avail : ~tickets[n].exists
        /\ tickets' = [n \in Nums |-> IF n \in up.avail
                         THEN TicketRow(created[n] + 1, "available", "cashier", NULLTEXT, NULLTEXT)
                         ELSE tickets[n]]
        /\ created' = [n \in Nums |-> IF n \in up.avail THEN created[n] + 1 ELSE created[n]]
        /\ up' = [up EXCEPT !.pc = "idle", !.avail = {}, !.res = "done",
                            !.availableCreatedCount = @ + Cardinality(up.avail),
                            !.events = loadEvents(up.events)]
     \/ /\ up.avail # {}
        /\ up' = [up EXCEPT !.pc = "availrows"]
        /\ UNCHANGED <<tickets, created>>
  /\ UNCHANGED <<constraint_installed, event, lock, sales,
                 cashier, scanner, rpc, accepted, alloc, dashboard>>

\* Upload.handleUpload STEP 2, per-row retry: one insert per row, counted
\* as created whether the request returned an error or not
UploadAvailRow ==
  /\ up.pc = "availrows"
  /\ LET n == SetMin(up.avail)
         rest == up.avail \ {n}
     IN  /\ \/ /\ ~tickets[n].exists
               /\ tickets' = [tickets EXCEPT ![n] =
                     TicketRow(created[n] + 1, "available", "cashier", NULLTEXT, NULLTEXT)]
               /\ created' = [created EXCEPT ![n] = @ + 1]
            \/ UNCHANGED <<tickets, created>>
         /\ up' = [up EXCEPT !.avail = rest,
                             !.availableCreatedCount = @ + 1,
                             !.pc = IF rest = {} THEN "idle" ELSE "availrows",
                             !.res = IF rest = {} THEN "done" ELSE @,
                             !.events = IF rest = {} THEN loadEvents(up.events) ELSE @]
  /\ UNCHANGED <<constraint_installed, event, lock, sales,
                 cashier, scanner, rpc, accepted, alloc, dashboard>>

\* ----------------------------------------------------------- Cashier page
\* wrote records whether the ticket write of the request in progress has
\* changed a row (the page itself never learns it)
CashierIdle == [pc |-> "idle", events |-> NoEvent, n |-> 0, existing |-> FALSE,
                ticketId |-> 0, paymentMode |-> FALSE, res |-> "none", raced |-> FALSE,
                wrote |-> FALSE]

\* Cashier.loadEvents on mount of the page
CashierLoadEvents(c) ==
  /\ cashier[c].pc = "idle"
  /\ event.exists
  /\ cashier[c].events # event
  /\ cashier' = [cashier EXCEPT ![c].events = event]
  /\ UNCHANGED <<constraint_installed, event, lock, tickets, created, sales,
                 scanner, up, rpc, accepted, alloc, dashboard>>

\* the checks Cashier.handleSubmit runs on the page's cached event before it
\* reads the ticket; "pass" when the sale may go on.  paymentMode tells the
\* variant of the page that records a payment mode.
SubmitChecks(selectedEvent, ticketNum, paymentMode) ==
  IF paymentMode
    THEN IF selectedEvent.range_start = 0 /\ selectedEvent.range_end = 0
           THEN "AwaitingUpload"
         ELSE IF ticketNum < selectedEvent.range_start \/ ticketNum > selectedEvent.range_end
           THEN "OutOfEventRange"
         ELSE IF HasBulk(selectedEvent)
                 /\ ticketNum >= selectedEvent.bulk_sold_range_start
                 /\ ticketNum <= selectedEvent.bulk_sold_range_end
           THEN "InBulkRange"
         ELSE "pass"
    ELSE IF ticketNum < selectedEvent.range_start \/ ticketNum > selectedEvent.range_end
           THEN "OutOfEventRange"
         ELSE IF isTicketInBulkRange(ticketNum, selectedEvent) THEN "InBulkRange"
         ELSE IF getAvailableRange(selectedEvent).none THEN "NoInventory"
         ELSE IF ticketNum < getAvailableRange(selectedEvent).start
                 \/ ticketNum > getAvailableRange(selectedEvent).end
           THEN "NoInventory"
         ELSE "pass"

\* the page after the request has ended with result k
Finished(page, k) == [CashierIdle EXCEPT !.events = page.events, !.res = k,
                                         !.raced = page.raced]

\* sales in progress for ticket number n
InFlight(n) == Cardinality({c \in Cashiers : cashier[c].pc # "idle" /\ cashier[c].n = n})

\* Cashier.handleSubmit up to the select of the existing ticket
handleSubmit(c, ticketNum, paymentMode) ==
  /\ cashier[c].pc = "idle"
  /\ cashier[c].events.exists
  /\ sales[ticketNum] + InFlight(ticketNum) < MaxSales
  /\ tickets[ticketNum].exists \/ created[ticketNum] < MaxGen
  /\ LET check == SubmitChecks(cashier[c].events, ticketNum, paymentMode)
         existingTicket == tickets[ticketNum]
         others == {d \in Cashiers \ {c} : cashier[d].pc # "idle" /\ cashier[d].n = ticketNum}
         fail(k) == [CashierIdle EXCEPT !.events = cashier[c].events, !.res = k,
                                        !.raced = others # {}]
         go(k, ex, i) == [cashier[c] EXCEPT !.pc = k, !.n = ticketNum, !.existing = ex,
                                            !.ticketId = i, !.paymentMode = paymentMode,
                                            !.res = "none", !.raced = others # {}]
         mine == IF check # "pass" THEN fail(check)
                 ELSE IF existingTicket.exists
                   THEN IF existingTicket.status = "sold" THEN fail("AlreadySold")
                        ELSE IF existingTicket.status = "used" THEN fail("AlreadyUsed")
                        ELSE IF existingTicket.sale_type = "bulk"
                          THEN fail("BulkTicketNotIndividuallySellable")
                        ELSE go("update", TRUE, existingTicket.id)
                   ELSE go("create", FALSE, 0)
     IN  cashier' = [d \in Cashiers |->
           IF d = c THEN mine
           ELSE IF d \in others THEN [cashier[d] EXCEPT !.raced = TRUE]
           ELSE cashier[d]]
  /\ UNCHANGED <<constraint_installed, event, lock, tickets, created, sales,
                 scanner, up, rpc, accepted, alloc, dashboard>>

\* the rows an update ... .eq('id', id).eq('status', st) matches
RowMatches(n, id, st) == tickets[n].exists /\ tickets[n].id = id /\ tickets[n].status = st

\* Cashier.handleSubmit: update of the existing available ticket to sold
\* (.eq('status', 'available')); only the error of the request is looked at
SellUpdate(c) ==
  /\ cashier[c].pc = "update"
  /\ LET n == cashier[c].n
     IN  tickets' = IF RowMatches(n, cashier[c].ticketId, "available")
                      THEN [tickets EXCEPT ![n].status = "sold", ![n].buyer_name = CashierBuyer]
                      ELSE tickets
  /\ cashier' = [cashier EXCEPT ![c].pc = "sale",
                   ![c].wrote = RowMatches(cashier[c].n, cashier[c].ticketId, "available")]
  /\ UNCHANGED <<constraint_installed, event, lock, created, sales,
                 scanner, up, rpc, accepted, alloc, dashboard>>

\* Cashier.handleSubmit: insert of a new sold cashier ticket; the unique
\* key (ticket_number, event_id) rejects a second row
SellCreate(c) ==
  /\ cashier[c].pc = "create"
  /\ LET n == cashier[c].n
     IN  IF tickets[n].exists
           THEN /\ cashier' = [cashier EXCEPT ![c] = Finished(cashier[c], "CreateFailed")]
                /\ UNCHANGED <<tickets, created>>
           ELSE /\ tickets' = [tickets EXCEPT ![n] =
                                 TicketRow(created[n] + 1, "sold", "cashier", CashierBuyer, NULLTEXT)]
                /\ created' = [created EXCEPT ![n] = @ + 1]
                /\ cashier' = [cashier EXCEPT ![c].pc = "sale", ![c].ticketId = created[n] + 1,
                                               ![c].wrote = TRUE]
  /\ UNCHANGED <<constraint_installed, event, lock, sales,
                 scanner, up, rpc, accepted, alloc, dashboard>>

\* Cashier.handleSubmit: insert of the sales row; the request either
\* succeeds or returns an error (saleError)
SellInsertSale(c) ==
  /\ cashier[c].pc = "sale"
  /\ \/ /\ sales' = [sales EXCEPT ![cashier[c].n] = @ + 1]
        /\ cashier' = [cashier EXCEPT ![c] = Finished(cashier[c], "ok")]
     \/ /\ cashier' = [cashier EXCEPT ![c].pc = "rollback"]
        /\ UNCHANGED sales
  /\ UNCHANGED <<constraint_installed, event, lock, tickets, created,
                 scanner, up, rpc, accepted, alloc, dashboard>>

\* Cashier.handleSubmit after saleError: the update by id that puts an
\* existing ticket back to available (no condition on the status); for a
\* ticket this sale created, the delete by id, which the payment-mode
\* variant precedes by an update of the row to sold
SellRollback(c) ==
  /\ cashier[c].pc \in {"rollback", "rollbackDelete"}
  /\ LET n == cashier[c].n
         mine == tickets[n].exists /\ tickets[n].id = cashier[c].ticketId
         finish == [cashier EXCEPT ![c] = Finished(cashier[c], "SaleInsertFailed")]
     IN  IF cashier[c].existing
           THEN /\ tickets' = IF mine
                     THEN [tickets EXCEPT ![n].status = "available",
                                          ![n].buyer_name = NULLTEXT]
                     ELSE tickets
                /\ cashier' = finish
           ELSE IF cashier[c].paymentMode /\ cashier[c].pc = "rollback"
             THEN /\ tickets' = IF mine
                       THEN [tickets EXCEPT ![n].status = "sold", ![n].buyer_name = CashierBuyer]
                       ELSE tickets
                  /\ cashier' = [cashier EXCEPT ![c].pc = "rollbackDelete"]
             ELSE /\ tickets' = IF mine THEN [tickets EXCEPT ![n] = NoTicket] ELSE tickets
                  /\ cashier' = finish
  /\ UNCHANGED <<constraint_installed, event, lock, created, sales,
                 scanner, up, rpc, accepted, alloc, dashboard>>

\* ----------------------------------------------------------- Scanner page
ScannerIdle == [pc |-> "idle", events |-> NoEvent, n |-> 0, ticketId |-> 0,
                verdict |-> "none", reason |-> "none", raced |-> FALSE]

\* Scanner.loadEvents on mount of the page
ScannerLoadEvents(s) ==
  /\ scanner[s].pc = "idle"
  /\ event.exists
  /\ scanner[s].events # event
  /\ scanner' = [scanner EXCEPT ![s].events = event]
  /\ UNCHANGED <<constraint_installed, event, lock, tickets, created, sales,
                 cashier, up, rpc, accepted, alloc, dashboard>>

\* Scanner.validateTicketForEvent: "valid" or the reason of the rejection
validateTicketForEvent(ticket, n, e) ==
  IF n < e.range_start \/ n > e.range_end THEN "Ticket outside event range"
  ELSE IF ticket.status = "available" THEN "Ticket not sold yet"
  ELSE IF ticket.status = "used" THEN "Ticket already used"
  ELSE IF ticket.sale_type = "bulk"
    THEN IF HasBulk(e) /\ n >= e.bulk_sold_range_start /\ n <= e.bulk_sold_range_end
           THEN "valid"
           ELSE "Bulk ticket outside bulk range"
  ELSE IF HasBulk(e) /\ n >= e.bulk_sold_range_start /\ n <= e.bulk_sold_range_end
    THEN "Cashier ticket in bulk range - invalid"
  ELSE "valid"

\* Scanner.handleScan of the page that validates the ticket for the event,
\* up to the select of the ticket: the verdict, or the update still to do
ScanLookup(selectedEvent, n) ==
  LET ticket == tickets[n]
  IN  IF ~ticket.exists THEN <<"invalid", "Ticket not found">>
      ELSE IF validateTicketForEvent(ticket, n, selectedEvent) # "valid"
        THEN <<"invalid", validateTicketForEvent(ticket, n, selectedEvent)>>
      ELSE IF ticket.status = "used" THEN <<"duplicate", "Already scanned">>
      ELSE <<"update", "none">>

\* Scanner.handleScan of the page that looks the ticket up by number or QR
\* code, up to the select of the ticket
\* (mutant for C24: a ticket with status used is not turned away)
ScanLookupByNumber_noUsedCheck(selectedEvent, n) ==
  LET ticket == tickets[n]
  IN  IF selectedEvent.range_start = 0 /\ selectedEvent.range_end = 0
        THEN <<"failed", "Event is awaiting CSV upload">>
      ELSE IF ~ticket.exists THEN <<"failed", "Ticket not found">>
      ELSE IF ticket.status = "available" THEN <<"failed", "has not been sold yet">>
      ELSE <<"update", "none">>
ScanLookupByNumber(selectedEvent, n) ==
  LET ticket == tickets[n]
  IN  IF selectedEvent.range_start = 0 /\ selectedEvent.range_end = 0
        THEN <<"failed", "Event is awaiting CSV upload">>
      ELSE IF ~ticket.exists THEN <<"failed", "Ticket not found">>
      ELSE IF ticket.status = "available" THEN <<"failed", "has not been sold yet">>
      ELSE IF ticket.status = "used" THEN <<"failed", "already used">>
      ELSE <<"update", "none">>

\* Scanner.handleScan up to the select of the ticket (the ticket is named
\* by its number: code and QR payload are unique per ticket of the event)
handleScan(s, n, byNumber) ==
  /\ scanner[s].pc = "idle"
  /\ scanner[s].events.exists
  /\ LET r == IF byNumber THEN ScanLookupByNumber(scanner[s].events, n)
                          ELSE ScanLookup(scanner[s].events, n)
         others == {d \in Scanners \ {s} : scanner[d].pc # "idle" /\ scanner[d].n = n}
         mine == IF r[1] = "update"
                   THEN [scanner[s] EXCEPT !.pc = "update", !.n = n,
                                           !.ticketId = tickets[n].id,
                                           !.verdict = "none", !.reason = "none",
                                           !.raced = others # {}]
                   ELSE [ScannerIdle EXCEPT !.events = scanner[s].events,
                                            !.verdict = r[1], !.reason = r[2],
                                            !.raced = others # {}]
     IN  scanner' = [d \in Scanners |->
           IF d = s THEN mine
           ELSE IF d \in others THEN [scanner[d] EXCEPT !.raced = TRUE]
           ELSE scanner[d]]
  /\ UNCHANGED <<constraint_installed, event, lock, tickets, created, sales,
                 cashier, up, rpc, accepted, alloc, dashboard>>

\* Scanner.handleScan: update of the ticket to used (.eq('status', 'sold'));
\* only the error of the request is looked at, then the scan is accepted
ScanUpdate(s) ==
  /\ scanner[s].pc = "update"
  /\ LET n == scanner[s].n
     IN  tickets' = IF RowMatches(n, scanner[s].ticketId, "sold")
                      THEN [tickets EXCEPT ![n].status = "used", ![n].scanned_by = s]
                      ELSE tickets
  /\ scanner' = [scanner EXCEPT ![s] = [ScannerIdle EXCEPT
                                !.events = scanner[s].events, !.raced = scanner[s].raced,
                                !.verdict = "accepted", !.reason = "Access granted"]]
  /\ UNCHANGED <<constraint_installed, event, lock, created, sales,
                 cashier, up, rpc, accepted, alloc, dashboard>>

\* --------------------------------------------------------- Dashboard page
\* the rows of the tickets select with the given status and sale channel
CountTickets(statuses, types) ==
  Cardinality({n \in Nums : /\ tickets[n].exists
                            /\ tickets[n].status \in statuses
                            /\ tickets[n].sale_type \in types})

\* the page before loadStats has set its stats: every count is 0
DashboardIdle ==
  [loaded |-> FALSE, selectedEventId |-> FALSE,
   totalTickets |-> 0, soldTickets |-> 0, usedTickets |-> 0,
   availableTickets |-> 0, bulkSold |-> 0, cashierSold |-> 0]

\* the stats object loadStats computes from the rows of the tickets
\* select, with bulkSoldCount as given
NewStats(selectedEventId, bulkSoldCount) ==
  [loaded |-> TRUE, selectedEventId |-> selectedEventId,
   totalTickets |-> CountTickets({"available", "sold", "used"}, {"cashier", "bulk"}),
   soldTickets |-> CountTickets({"sold"}, {"cashier", "bulk"}),
   usedTickets |-> CountTickets({"used"}, {"cashier", "bulk"}),
   availableTickets |-> CountTickets({"available"}, {"cashier"}),
   bulkSold |-> bulkSoldCount,
   cashierSold |-> CountTickets({"sold"}, {"cashier"})]

\* Dashboard.loadStats of the page without event selection
loadStats ==
  /\ dashboard' = NewStats(FALSE, CountTickets({"sold"}, {"bulk"}))
  /\ UNCHANGED <<constraint_installed, event, lock, tickets, created, sales,
                 cashier, scanner, up, rpc, accepted, alloc>>

\* Dashboard.loadStats of the page with an event selection: with an event
\* selected, bulkSoldCount is replaced by the bulk_sold_range_end of the
\* event row when that is not null
loadStatsEvent(selectedEventId) ==
  /\ selectedEventId => event.exists
  /\ dashboard' = NewStats(selectedEventId,
        IF selectedEventId /\ event.bulk_sold_range_end # NULL
          THEN event.bulk_sold_range_end
          ELSE CountTickets({"sold"}, {"bulk"}))
  /\ UNCHANGED <<constraint_installed, event, lock, tickets, created, sales,
                 cashier, scanner, up, rpc, accepted, alloc>>

\* ---------------------------------------------- update_event_bulk_range
\* the smallest interval that contains the hull h and [s, t]
NoHull == <<NULL, NULL>>
Hull(h, s, t) == IF h = NoHull THEN <<s, t>> ELSE <<Min(h[1], s), Max(h[2], t)>>

RpcIdle == [pc |-> "idle", s |-> 0, t |-> 0, row |-> NoEvent, res |-> "none", gap |-> 0]

\* buyer a caller of update_event_bulk_range passes
RpcBuyer == <<"acme", NULLTEXT, NULLTEXT>>

\* SELECT ... FOR UPDATE waits until no other transaction holds the row
\* (mutant for C7: the SELECT does not take the row lock)
RowLockFree_noLock(r) == TRUE
RowLockFree(r) == lock = NoOne

\* update_event_bulk_range: the SELECT ... FOR UPDATE of the event row
RpcSelectForUpdate(r, s, t) ==
  /\ rpc[r].pc = "idle"
  /\ event.exists
  /\ RowLockFree(r)
  /\ lock' = r
  /\ rpc' = [rpc EXCEPT ![r] = [pc |-> "locked", s |-> s, t |-> t, row |-> event,
                                res |-> "none", gap |-> 0]]
  /\ UNCHANGED <<constraint_installed, event, tickets, created, sales,
                 cashier, scanner, up, accepted, alloc, dashboard>>

\* update_event_bulk_range: validation, UPDATE of the bulk columns and the
\* end of the transaction, which releases the row lock
RpcCommit(r) ==
  /\ rpc[r].pc = "locked"
  /\ LET out == update_event_bulk_range(constraint_installed, rpc[r].row, rpc[r].s, rpc[r].t,
                                        RpcBuyer[1], RpcBuyer[2], RpcBuyer[3])
     IN  /\ event' = IF out.kind = "ok"
                       THEN [event EXCEPT
                               !.bulk_sold_range_start = out.ev.bulk_sold_range_start,
                               !.bulk_sold_range_end = out.ev.bulk_sold_range_end,
                               !.bulk_buyer_name = out.ev.bulk_buyer_name,
                               !.bulk_buyer_email = out.ev.bulk_buyer_email,
                               !.bulk_buyer_phone = out.ev.bulk_buyer_phone]
                       ELSE event
         /\ accepted' = IF out.kind = "ok"
                          THEN Hull(accepted, rpc[r].s, rpc[r].t) ELSE accepted
         /\ rpc' = [rpc EXCEPT ![r] = [RpcIdle EXCEPT !.res = out.kind, !.gap = out.gap]]
  /\ lock' = NoOne
  /\ UNCHANGED <<constraint_installed, tickets, created, sales,
                 cashier, scanner, up, alloc, dashboard>>

\* ------------------------------------------------------------ the system
AllocIdle == [step |-> 0]

\* an event created before the bulk columns were added: its range is set,
\* the bulk columns are NULL
LegacyEvent == EventRow(1, MaxNum, NULL, NULL, NULLTEXT, NULLTEXT, NULLTEXT)

Init ==
  /\ constraint_installed \in BOOLEAN
  /\ event \in {NoEvent, LegacyEvent}
  /\ lock = NoOne
  /\ tickets = [n \in Nums |-> NoTicket]
  /\ created = [n \in Nums |-> 0]
  /\ sales = [n \in Nums |-> 0]
  /\ cashier = [c \in Cashiers |-> CashierIdle]
  /\ scanner = [s \in Scanners |-> ScannerIdle]
  /\ up = UpIdle
  /\ rpc = [r \in Callers |-> RpcIdle]
  /\ accepted = NoHull
  /\ alloc = AllocIdle
  /\ dashboard = DashboardIdle

\* the Upload page
NextUpload ==
  \/ \E bs, be \in Nums : handleCreateEvent(bs, be)
  \/ UploadLoadEvents
  \/ \E csv \in SUBSET Nums, b, a \in BOOLEAN : handleUpload(csv, b, a)
  \/ UploadBulkBatch
  \/ UploadBulkRow
  \/ UploadAvailBatch
  \/ UploadAvailRow

\* the Cashier page of terminal c
NextCashier(c) ==
  \/ CashierLoadEvents(c)
  \/ \E n \in Nums, pm \in BOOLEAN : handleSubmit(c, n, pm)
  \/ SellUpdate(c)
  \/ SellCreate(c)
  \/ SellInsertSale(c)
  \/ SellRollback(c)

\* the Scanner page of terminal s
NextScanner(s) ==
  \/ ScannerLoadEvents(s)
  \/ \E n \in Nums, bn \in BOOLEAN : handleScan(s, n, bn)
  \/ ScanUpdate(s)

\* a caller of update_event_bulk_range
NextRpc(r) ==
  \/ \E s, t \in 0..MaxNum : RpcSelectForUpdate(r, s, t)
  \/ RpcCommit(r)

\* the pages of the application: one admin, one cashier and one scanner
\* (no page calls update_event_bulk_range; its callers are composed below)
Next ==
  \/ NextUpload
  \/ NextCashier("c1")
  \/ NextScanner("s1")

Spec == Init /\ [][Next]_vars

\* the admin and two cashiers
NextSell ==
  \/ NextUpload
  \/ \E c \in Cashiers : NextCashier(c)

SpecSell == Init /\ [][NextSell]_vars

\* the admin and two scanners
NextScan ==
  \/ NextUpload
  \/ \E s \in Scanners : NextScanner(s)

SpecScan == Init /\ [][NextScan]_vars

\* event creation and two concurrent callers of the function
NextBulk ==
  \/ \E bs, be \in Nums : handleCreateEvent(bs, be)
  \/ \E r \in Callers : NextRpc(r)

SpecBulk == Init /\ [][NextBulk]_vars

\* a cashier selling tickets that no upload has created, and a caller of
\* the function on the same event
NextStale ==
  \/ \E bs, be \in Nums : handleCreateEvent(bs, be)
  \/ CashierLoadEvents("c1")
  \/ \E n \in Nums, pm \in BOOLEAN : handleSubmit("c1", n, pm)
  \/ SellCreate("c1")
  \/ SellInsertSale("c1")
  \/ SellRollback("c1")
  \/ NextRpc("r1")

SpecStale == Init /\ [][NextStale]_vars

\* a cashier, a caller of the function and a scanner on the same event
NextGate ==
  \/ NextStale
  \/ NextScanner("s1")

SpecGate == Init /\ [][NextGate]_vars

\* the admin, a cashier and a caller of the function on an event that
\* exists: uploads with both options of the form set, sales on the page
\* without payment mode
NextConflict ==
  \/ UploadLoadEvents
  \/ \E csv \in SUBSET Nums : handleUpload(csv, TRUE, TRUE)
  \/ UploadBulkBatch
  \/ UploadBulkRow
  \/ UploadAvailBatch
  \/ UploadAvailRow
  \/ CashierLoadEvents("c1")
  \/ \E n \in Nums : handleSubmit("c1", n, FALSE)
  \/ SellUpdate("c1")
  \/ SellCreate("c1")
  \/ SellInsertSale("c1")
  \/ SellRollback("c1")
  \/ \E s, t \in Nums : RpcSelectForUpdate("r1", s, t)
  \/ RpcCommit("r1")

SpecConflict == Init /\ [][NextConflict]_vars

\* the admin alone: event creation and uploads
NextIngest == NextUpload

SpecIngest == Init /\ [][NextIngest]_vars

\* the admin, uploading with both options of the form set, and a caller of
\* update_event_bulk_range proposing intervals
NextLedger ==
  \/ \E bs, be \in Nums : handleCreateEvent(bs, be)
  \/ UploadLoadEvents
  \/ \E csv \in SUBSET Nums : handleUpload(csv, TRUE, TRUE)
  \/ UploadBulkBatch
  \/ UploadBulkRow
  \/ UploadAvailBatch
  \/ UploadAvailRow
  \/ \E s \in Nums : \E t \in s..MaxNum : RpcSelectForUpdate("r1", s, t)
  \/ RpcCommit("r1")

SpecLedger == Init /\ [][NextLedger]_vars

\* the admin and the Dashboard pages
NextDashboard ==
  \/ NextUpload
  \/ loadStats
  \/ \E selectedEventId \in BOOLEAN : loadStatsEvent(selectedEventId)

SpecDashboard == Init /\ [][NextDashboard]_vars

\* ------------------------------------------------ operations issued again
\* The ledger after one upload has ended: an event created by the Upload
\* page with bulk range bs-be (stored where the table carries no CHECK),
\* then one file csv uploaded with the options b (bulk rows) and a
\* (available rows), every batch request accepted.  The file holds every
\* ticket number and the bulk range is 1-1.  The Cashier page of c1 and the Scanner page of s1 have
\* loaded the events after the upload.
UploadedLedger(bs, be, csv, b, a) ==
  LET row == EventRow(CsvBounds(csv)[1], CsvBounds(csv)[2], bs, be,
                      NULLTEXT, NULLTEXT, NULLTEXT)
      bulkTickets == {n \in csv : n >= bs /\ n <= be}
      availableTicketsData == {n \in csv : n < bs \/ n > be}
  IN  /\ event = row
      /\ tickets = [n \in Nums |->
            IF b /\ n \in bulkTickets
              THEN TicketRow(1, "sold", "bulk", BulkBuyer, NULLTEXT)
            ELSE IF a /\ n \in availableTicketsData
              THEN TicketRow(1, "available", "cashier", NULLTEXT, NULLTEXT)
            ELSE NoTicket]
      /\ created = [n \in Nums |->
            IF (b /\ n \in bulkTickets) \/ (a /\ n \in availableTicketsData)
              THEN 1 ELSE 0]
      /\ up = [UpIdle EXCEPT
                 !.events = row, !.res = "done", !.uploads = 1,
                 !.bulkSoldCount = IF b THEN Cardinality(bulkTickets) ELSE 0,
                 !.availableCreatedCount =
                    IF a THEN Cardinality(availableTicketsData) ELSE 0]

InitRetry ==
  /\ constraint_installed = FALSE
  /\ \E b, a \in BOOLEAN :
       /\ b \/ a
       /\ UploadedLedger(1, 1, Nums, b, a)
  /\ lock = NoOne
  /\ sales = [n \in Nums |-> 0]
  /\ cashier = [c \in Cashiers |->
                  IF c = "c1" THEN [CashierIdle EXCEPT !.events = event] ELSE CashierIdle]
  /\ scanner = [s \in Scanners |->
                  IF s = "s1" THEN [ScannerIdle EXCEPT !.events = event] ELSE ScannerIdle]
  /\ rpc = [r \in Callers |-> RpcIdle]
  /\ accepted = NoHull
  /\ alloc = AllocIdle
  /\ dashboard = DashboardIdle

\* a cashier on the page with payment mode, a scanner on the page that
\* looks tickets up by number, and a caller of update_event_bulk_range
NextRetry ==
  \/ \E n \in Nums : handleSubmit("c1", n, TRUE)
  \/ SellUpdate("c1")
  \/ SellCreate("c1")
  \/ SellInsertSale("c1")
  \/ SellRollback("c1")
  \/ \E n \in Nums : handleScan("s1", n, TRUE)
  \/ ScanUpdate("s1")
  \/ \E s \in Nums : \E t \in s..MaxNum : RpcSelectForUpdate("r1", s, t)
  \/ RpcCommit("r1")

SpecRetry == InitRetry /\ [][NextRetry]_vars

\* ----------------------------------------------------- the allocator alone
\* Two proposals a and b are applied to one event row e0 in both orders:
\* ab holds the outcome of a, then of b after a; ba that of b, then of a
\* after b.
AllocRanges ==
  {<<0, 0>>} \cup {<<x, y>> \in (1..AllocMax) \X (1..AllocMax) : x <= y}

AllocBulks ==
  {<<NULL, NULL>>} \cup {<<x, y>> \in (0..AllocMax) \X (0..AllocMax) : x <= y}

\* the event rows the allocator is run on: any range, any bulk range the
\* table accepts; a stored bulk range carries the buyer of its allocation
AllocEvents(installed) ==
  {e \in {EventRow(r[1], r[2], k[1], k[2],
                   IF k[1] = NULL THEN NULLTEXT ELSE "old",
                   IF k[1] = NULL THEN NULLTEXT ELSE "old@mail",
                   NULLTEXT) : r \in AllocRanges, k \in AllocBulks} :
     RowAccepted(installed, e)}

\* the proposals: a is any pair of numbers, b any interval
ProposalsA == (0..(AllocMax + 1)) \X (0..(AllocMax + 1))
ProposalsB == {<<x, y>> \in (1..(AllocMax + 1)) \X (1..(AllocMax + 1)) : x <= y}

BuyerA == <<"a", NULLTEXT, "phone-a">>
BuyerB == <<"b", "b@mail", NULLTEXT>>

Propose(installed, e, p, buyer) ==
  update_event_bulk_range(installed, e, p[1], p[2], buyer[1], buyer[2], buyer[3])

InitAlloc ==
  /\ constraint_installed \in BOOLEAN
  /\ event = NoEvent
  /\ lock = NoOne
  /\ tickets = [n \in Nums |-> NoTicket]
  /\ created = [n \in Nums |-> 0]
  /\ sales = [n \in Nums |-> 0]
  /\ cashier = [c \in Cashiers |-> CashierIdle]
  /\ scanner = [s \in Scanners |-> ScannerIdle]
  /\ up = UpIdle
  /\ rpc = [r \in Callers |-> RpcIdle]
  /\ accepted = NoHull
  /\ dashboard = DashboardIdle
  /\ alloc \in {[step |-> 0, e0 |-> e, a |-> a, b |-> b] :
                  e \in AllocEvents(constraint_installed),
                  a \in ProposalsA, b \in ProposalsB}

\* the first call of each order, on the row e0
AllocFirst ==
  /\ alloc.step = 0
  /\ alloc' = [step |-> 1, e0 |-> alloc.e0, a |-> alloc.a, b |-> alloc.b,
               ab |-> Propose(constraint_installed, alloc.e0, alloc.a, BuyerA),
               ba |-> Propose(constraint_installed, alloc.e0, alloc.b, BuyerB)]
  /\ UNCHANGED <<constraint_installed, event, lock, tickets, created, sales,
                 cashier, scanner, up, rpc, accepted, dashboard>>

\* the second call of each order, on the row the first call left
AllocSecond ==
  /\ alloc.step = 1
  /\ alloc' = [step |-> 2, e0 |-> alloc.e0, a |-> alloc.a, b |-> alloc.b,
               ab |-> Propose(constraint_installed, alloc.ab.ev, alloc.b, BuyerB),
               ba |-> Propose(constraint_installed, alloc.ba.ev, alloc.a, BuyerA)]
  /\ UNCHANGED <<constraint_installed, event, lock, tickets, created, sales,
                 cashier, scanner, up, rpc, accepted, dashboard>>

NextAlloc ==
  \/ AllocFirst
  \/ AllocSecond

SpecAlloc == InitAlloc /\ [][NextAlloc]_vars

\* --------------------------------------- the range checks of the Cashier page
\* The range computations of the Cashier page are run on one event row e0
\* and one ticket number n.  The rows are those the events table can hold:
\* a range 0-0 is the range of an event created by the Upload page, which
\* always carries a bulk range and is stored only where the table accepts it.
AvailEvents(installed) ==
  {e \in AllocEvents(installed) :
     e.range_start = 0 => (~installed /\ e.bulk_sold_range_start # NULL)}

InitAvail ==
  /\ constraint_installed \in BOOLEAN
  /\ event = NoEvent
  /\ lock = NoOne
  /\ tickets = [n \in Nums |-> NoTicket]
  /\ created = [n \in Nums |-> 0]
  /\ sales = [n \in Nums |-> 0]
  /\ cashier = [c \in Cashiers |-> CashierIdle]
  /\ scanner = [s \in Scanners |-> ScannerIdle]
  /\ up = UpIdle
  /\ rpc = [r \in Callers |-> RpcIdle]
  /\ accepted = NoHull
  /\ dashboard = DashboardIdle
  /\ alloc \in {[step |-> 0, e0 |-> e, n |-> n] :
                  e \in AvailEvents(constraint_installed), n \in 0..(AllocMax + 1)}

\* getAvailableRange of both Cashier pages on e0, and the checks of both
\* handleSubmit on (e0, n)
ComputeAvailable ==
  /\ alloc.step = 0
  /\ alloc' = [step |-> 1, e0 |-> alloc.e0, n |-> alloc.n,
               largest |-> getAvailableRange(alloc.e0),
               first |-> getAvailableRangeFirst(alloc.e0),
               check |-> SubmitChecks(alloc.e0, alloc.n, FALSE),
               checkPaymentMode |-> SubmitChecks(alloc.e0, alloc.n, TRUE)]
  /\ UNCHANGED <<constraint_installed, event, lock, tickets, created, sales,
                 cashier, scanner, up, rpc, accepted, dashboard>>

NextAvail == ComputeAvailable

SpecAvail == InitAvail /\ [][NextAvail]_vars

\* --------------------------------------------------------------- claims
BulkOf(e) == <<e.bulk_sold_range_start, e.bulk_sold_range_end>>
Interval(p) == p[1] <= p[2]
InsideEvent(e, p) == e.range_start <= p[1] /\ p[2] <= e.range_end
\* the number of integers strictly between two disjoint intervals
Between(cs, ce, s, t) ==
  IF s > ce THEN Cardinality({k \in 0..(AllocMax + 2) : ce < k /\ k < s})
            ELSE Cardinality({k \in 0..(AllocMax + 2) : t < k /\ k < cs})

\* C1: the bulk bounds of the event row are both unset, or satisfy
\* rangeStart <= bulkRangeStart <= bulkRangeEnd <= rangeEnd.
C1_BulkWithinRange ==
  event.exists =>
    \/ (event.bulk_sold_range_start = NULL /\ event.bulk_sold_range_end = NULL)
    \/ /\ event.bulk_sold_range_start # NULL /\ event.bulk_sold_range_end # NULL
       /\ event.range_start <= event.bulk_sold_range_start
       /\ event.bulk_sold_range_start <= event.bulk_sold_range_end
       /\ event.bulk_sold_range_end <= event.range_end

\* C2: two sales of the same ticket number that ran concurrently never both
\* end with success.
C2_NeverBothSucceed ==
  ~ /\ cashier["c1"].pc = "idle" /\ cashier["c2"].pc = "idle"
    /\ cashier["c1"].raced /\ cashier["c2"].raced
    /\ cashier["c1"].res = "ok" /\ cashier["c2"].res = "ok"

\* C3: two scans of the same ticket that ran concurrently never both end
\* with the verdict accepted.
C3_NeverAcceptedTwice ==
  ~ /\ scanner["s1"].pc = "idle" /\ scanner["s2"].pc = "idle"
    /\ scanner["s1"].raced /\ scanner["s2"].raced
    /\ scanner["s1"].verdict = "accepted" /\ scanner["s2"].verdict = "accepted"

\* C4: in every step, a ticket row with status used keeps status used, and
\* a ticket row with status available does not take status used.
C4_UsedIsFinal ==
  [][\A n \in Nums :
       (tickets[n].exists /\ tickets'[n].exists /\ tickets'[n].id = tickets[n].id)
       => /\ tickets[n].status = "used" => tickets'[n].status = "used"
          /\ tickets[n].status = "available" => tickets'[n].status # "used"]_vars

\* C5: whenever no sale is in progress, a ticket of the cashier channel with
\* status sold or used has exactly one row in sales, and a ticket of the bulk
\* channel or with status available has none.
C5_OneSaleRowPerCashierTicket ==
  (\A c \in Cashiers : cashier[c].pc = "idle") =>
    \A n \in Nums : tickets[n].exists =>
      /\ (tickets[n].sale_type = "cashier" /\ tickets[n].status \in {"sold", "used"})
           => sales[n] = 1
      /\ (tickets[n].sale_type = "bulk" \/ tickets[n].status = "available")
           => sales[n] = 0

\* C6: a step in which a ticket becomes a sold ticket of the cashier channel
\* is never taken for a ticket number inside the bulk bounds the event row
\* holds at that step.
C6_NoCashierSaleInsideStoredBulk ==
  [][\A n \in Nums :
       (/\ ~(tickets[n].exists /\ tickets[n].status = "sold")
        /\ tickets'[n].exists
        /\ tickets'[n].status = "sold" /\ tickets'[n].sale_type = "cashier")
       => ~ /\ event.bulk_sold_range_start # NULL /\ event.bulk_sold_range_end # NULL
            /\ n >= event.bulk_sold_range_start /\ n <= event.bulk_sold_range_end]_vars

\* C7: calls of update_event_bulk_range on one event are serialized by the
\* row lock: a call that holds the row works on the committed row, and the
\* stored bulk interval covers every interval a call has accepted.
C7_SerializedMerges ==
  /\ \A r \in Callers : rpc[r].pc = "locked" => (lock = r /\ rpc[r].row = event)
  /\ accepted # NoHull =>
       /\ event.exists
       /\ event.bulk_sold_range_start # NULL /\ event.bulk_sold_range_end # NULL
       /\ event.bulk_sold_range_start <= accepted[1]
       /\ accepted[2] <= event.bulk_sold_range_end

\* C7 witness: the first caller has committed [1, 1]; the second caller,
\* who proposes the adjacent [2, 2], holds the row lock and has read the
\* bounds the first caller committed
C7_Witness ==
  /\ rpc["r1"].pc = "idle" /\ rpc["r1"].res = "ok"
  /\ accepted = <<1, 1>>
  /\ rpc["r2"].pc = "locked" /\ lock = "r2"
  /\ rpc["r2"].s = 2 /\ rpc["r2"].t = 2
  /\ BulkOf(rpc["r2"].row) = <<1, 1>>

\* the stored bulk range of e is set and holds n
InStoredBulk(e, n) ==
  /\ e.bulk_sold_range_start # NULL /\ e.bulk_sold_range_end # NULL
  /\ n >= e.bulk_sold_range_start /\ n <= e.bulk_sold_range_end

\* C11: for an event with a bulk range inside its range (range 1 or more)
\* and a number n of the range, exactly one holds: n is in the bulk range, or
\* the range checks of handleSubmit (event range, bulk range, available
\* range) let n pass.
C11_BulkOrSellable ==
  (/\ alloc.step = 1
   /\ alloc.e0.range_start >= 1 /\ valid_bulk_range(alloc.e0)
   /\ alloc.e0.bulk_sold_range_start # NULL /\ alloc.e0.bulk_sold_range_end # NULL
   /\ alloc.n >= alloc.e0.range_start /\ alloc.n <= alloc.e0.range_end)
  => /\ InStoredBulk(alloc.e0, alloc.n) # (alloc.check = "pass")
     /\ InStoredBulk(alloc.e0, alloc.n) # (alloc.checkPaymentMode = "pass")

\* C12: a step in which a scan takes a sold ticket to used is taken only
\* for a ticket whose sale channel agrees with the bulk bounds the event row
\* holds: a bulk ticket inside them, a cashier ticket outside them.
C12_ScanChannelAgrees ==
  [][\A n \in Nums :
       (/\ tickets[n].exists /\ tickets[n].status = "sold"
        /\ tickets'[n].exists /\ tickets'[n].status = "used")
       => /\ tickets[n].sale_type = "bulk" => InStoredBulk(event, n)
          /\ tickets[n].sale_type = "cashier" => ~InStoredBulk(event, n)]_vars

\* C13: an ingestion does not go on to its writes (the event range, the
\* ticket rows) when a number of its bulk partition is held by a ticket of
\* the cashier channel with status sold or used.
C13_BulkCashierConflict ==
  [][(up.pc = "idle" /\ up'.pc = "bulk")
       => \A n \in up'.bulk :
            ~ /\ tickets[n].exists /\ tickets[n].sale_type = "cashier"
              /\ tickets[n].status \in {"sold", "used"}]_vars

\* C14: in the per-row retry of the available rows, a row whose ticket
\* number already exists (its insert fails) adds one to failed and nothing
\* to the created or sold counts.
C14_FailedRowCounted ==
  [][(up.pc = "availrows" /\ up' # up /\ tickets[SetMin(up.avail)].exists)
       => /\ up'.failedCount = up.failedCount + 1
          /\ up'.availableCreatedCount = up.availableCreatedCount
          /\ up'.bulkSoldCount = up.bulkSoldCount]_vars

\* C15: no scan ends with the verdict invalid for a ticket it has read with
\* status used (the reason "Ticket already used" is the one
\* validateTicketForEvent gives for that status and no other).
C15_UsedNeverInvalid ==
  \A s \in Scanners :
    ~(scanner[s].verdict = "invalid" /\ scanner[s].reason = "Ticket already used")

\* C16: a step in which a scan takes a ticket to used is taken only for a
\* ticket number inside the range the event row holds.
C16_ScanInsideEventRange ==
  [][\A n \in Nums :
       (/\ tickets[n].exists /\ tickets[n].status # "used"
        /\ tickets'[n].exists /\ tickets'[n].status = "used")
       => (event.range_start <= n /\ n <= event.range_end)]_vars

\* C17: the compensation of a failed Sale insert deletes the ticket row the
\* sale created, makes the ticket the sale took from available to sold
\* available again with the buyer cleared, and modifies no ticket row the
\* sale has not itself changed.
C17_RollbackRestoresOwnWrite ==
  [][\A c \in Cashiers :
       (cashier[c].pc \in {"rollback", "rollbackDelete"} /\ cashier'[c].pc # cashier[c].pc)
       => LET n == cashier[c].n
          IN  /\ ~cashier[c].wrote => tickets'[n] = tickets[n]
              /\ (cashier[c].wrote /\ cashier[c].existing)
                   => /\ tickets'[n].exists
                      /\ tickets'[n].status = "available"
                      /\ tickets'[n].buyer_name = NULLTEXT
              /\ (cashier[c].wrote /\ ~cashier[c].existing /\ cashier'[c].pc = "idle")
                   => ~tickets'[n].exists]_vars

\* C18: on every event with a bulk range inside its range (range 1 or
\* more) the two getAvailableRange implementations return the same interval.
C18_OneAvailableRangeRule ==
  (/\ alloc.step = 1
   /\ alloc.e0.range_start >= 1 /\ valid_bulk_range(alloc.e0))
  => alloc.largest = alloc.first

\* C19: on every event whose range has been set by an upload (range 1 or
\* more) and whose bulk range, if set, starts at 1 or more, both
\* getAvailableRange implementations return the full event range when the
\* event has no bulk range, no range when the bulk range covers the event
\* range, and otherwise a non-empty interval inside the event range and
\* disjoint from the bulk range.
C19_AvailableRange ==
  LET e == alloc.e0
      AsSpecified(r) ==
        IF e.bulk_sold_range_start = NULL /\ e.bulk_sold_range_end = NULL
          THEN r = Range(e.range_start, e.range_end)
        ELSE IF e.bulk_sold_range_start <= e.range_start
                /\ e.bulk_sold_range_end >= e.range_end
          THEN r = NoRange
        ELSE /\ ~r.none
             /\ r.start <= r.end
             /\ e.range_start <= r.start /\ r.end <= e.range_end
             /\ (r.end < e.bulk_sold_range_start \/ r.start > e.bulk_sold_range_end)
  IN  (alloc.step = 1 /\ e.range_start >= 1 /\ e.bulk_sold_range_start # 0)
      => (AsSpecified(alloc.largest) /\ AsSpecified(alloc.first))

\* C20: on an event with a bulk range inside its range (range 1 or more),
\* the checks of handleSubmit do not let a ticket number pass when the
\* getAvailableRange of the page returns no range or a range that does not
\* hold the number.
C20_NoInventory ==
  LET Outside(r, n) == r.none \/ n < r.start \/ n > r.end
  IN  (/\ alloc.step = 1
       /\ alloc.e0.range_start >= 1 /\ valid_bulk_range(alloc.e0))
      => /\ Outside(alloc.largest, alloc.n) => alloc.check # "pass"
         /\ Outside(alloc.first, alloc.n) => alloc.checkPaymentMode # "pass"

\* C21: an upload of a file with rows into an event whose range is 0-0 sets
\* the event range to the smallest and the largest ticket number of the
\* file; an upload of a file without rows ends with an error and changes
\* neither the event row nor the tickets.
C21_FirstIngestionSetsRange ==
  [][\A csv \in SUBSET Nums, b, a \in BOOLEAN :
       handleUpload(csv, b, a)
       => IF csv = {}
            THEN /\ up'.pc = "idle" /\ up'.res = "NoValidTickets"
                 /\ event' = event /\ tickets' = tickets /\ sales' = sales
            ELSE (event.range_start = 0 /\ event.range_end = 0)
                 => /\ up'.pc = "bulk"
                    /\ event'.range_start = SetMin(csv)
                    /\ event'.range_end = SetMax(csv)]_vars

\* C21 witness: the first upload into an event created with range 0-0 has
\* written the range 1-MaxNum and is about to write its rows
C21_Witness ==
  /\ up.pc = "bulk" /\ up.uploads = 1
  /\ event.exists /\ event.bulk_sold_range_start # NULL
  /\ event.range_start = 1 /\ event.range_end = MaxNum
  /\ up.bulk \cup up.avail = Nums

\* C22: an upload into an event whose range is set (not 0-0) leaves the
\* range of the event as it was.
C22_OnlyFirstIngestionSetsRange ==
  [][(up.pc = "idle" /\ up'.pc = "bulk"
      /\ ~(event.range_start = 0 /\ event.range_end = 0))
       => /\ event'.range_start = event.range_start
          /\ event'.range_end = event.range_end]_vars

\* C23: a call of update_event_bulk_range that succeeds on a row without
\* bulk range stores the buyer name, email and phone it was given; one that
\* merges into a stored bulk range stores the new name, and for email and
\* phone the new value when it is not NULL and the stored value otherwise.
C23_BuyerFields ==
  [][LET Stored(before, out, buyer) ==
           out.kind = "ok" =>
             IF BulkOf(before) = <<NULL, NULL>>
               THEN /\ out.ev.bulk_buyer_name = buyer[1]
                    /\ out.ev.bulk_buyer_email = buyer[2]
                    /\ out.ev.bulk_buyer_phone = buyer[3]
               ELSE /\ out.ev.bulk_buyer_name = buyer[1]
                    /\ out.ev.bulk_buyer_email =
                         (IF buyer[2] # NULLTEXT THEN buyer[2]
                                                 ELSE before.bulk_buyer_email)
                    /\ out.ev.bulk_buyer_phone =
                         (IF buyer[3] # NULLTEXT THEN buyer[3]
                                                 ELSE before.bulk_buyer_phone)
     IN  /\ (alloc.step = 0 /\ alloc'.step = 1)
            => /\ Stored(alloc.e0, alloc'.ab, BuyerA)
               /\ Stored(alloc.e0, alloc'.ba, BuyerB)
         /\ (alloc.step = 1 /\ alloc'.step = 2)
            => /\ Stored(alloc.ab.ev, alloc'.ab, BuyerB)
               /\ Stored(alloc.ba.ev, alloc'.ba, BuyerA)]_vars

\* C23 witness: on an event without bulk range the call of buyer a (no
\* email) was stored, and the call of buyer b (no phone) has merged into
\* it: the row carries the name and email of b and the phone of a
C23_Witness ==
  /\ alloc.step = 2
  /\ BulkOf(alloc.e0) = <<NULL, NULL>>
  /\ alloc.a # alloc.b
  /\ alloc.ab.kind = "ok"
  /\ BulkOf(alloc.ab.ev) = <<Min(alloc.a[1], alloc.b[1]), Max(alloc.a[2], alloc.b[2])>>
  /\ alloc.ab.ev.bulk_buyer_name = BuyerB[1]
  /\ alloc.ab.ev.bulk_buyer_email = BuyerB[2]
  /\ alloc.ab.ev.bulk_buyer_phone = BuyerA[3]

\* C24: an operation issued again once its write is in the store changes
\* nothing.  A sale of a ticket number whose ticket is sold or used ends at
\* the lookup, a scan of a ticket that is used ends at the lookup, and a
\* call of update_event_bulk_range with an interval the stored bulk range
\* holds leaves the bulk bounds as they are; in each of these steps the
\* status of every ticket and the rows of sales stay as they are.
C24_IssuedAgainChangesNothing ==
  [][/\ \A c \in Cashiers, n \in Nums, pm \in BOOLEAN :
          (/\ tickets[n].exists /\ tickets[n].status \in {"sold", "used"}
           /\ cashier[c].pc = "idle" /\ cashier'[c] # cashier[c]
           /\ handleSubmit(c, n, pm))
          => /\ cashier'[c].pc = "idle" /\ cashier'[c].res # "ok"
             /\ event' = event /\ tickets' = tickets /\ sales' = sales
     /\ \A s \in Scanners, n \in Nums, bn \in BOOLEAN :
          (/\ tickets[n].exists /\ tickets[n].status = "used"
           /\ scanner[s].pc = "idle" /\ scanner'[s] # scanner[s]
           /\ handleScan(s, n, bn))
          => /\ scanner'[s].pc = "idle" /\ scanner'[s].verdict # "accepted"
             /\ event' = event /\ tickets' = tickets /\ sales' = sales
     /\ \A r \in Callers :
          (/\ rpc[r].pc = "locked" /\ rpc[r].s <= rpc[r].t
           /\ InStoredBulk(event, rpc[r].s) /\ InStoredBulk(event, rpc[r].t)
           /\ RpcCommit(r))
          => /\ BulkOf(event') = BulkOf(event)
             /\ tickets' = tickets /\ sales' = sales]_vars

\* C24 witness: the cashier has sold a ticket and then been turned away
\* with the same number, the scanner has taken that ticket to used and then
\* been turned away with the same number, and the caller whose interval
\* 2-2 was accepted holds the row again with the same interval
C24_Witness ==
  /\ cashier["c1"].pc = "idle" /\ cashier["c1"].res = "AlreadySold"
  /\ scanner["s1"].pc = "idle" /\ scanner["s1"].reason = "already used"
  /\ \E n \in Nums :
       /\ tickets[n].exists /\ tickets[n].status = "used"
       /\ tickets[n].sale_type = "cashier" /\ tickets[n].scanned_by = "s1"
       /\ sales[n] = 1
       /\ \A m \in Nums \ {n} : sales[m] = 0 /\ ~(tickets[m].exists /\ tickets[m].status = "used")
  /\ accepted = <<2, 2>>
  /\ rpc["r1"].pc = "locked" /\ rpc["r1"].s = 2 /\ rpc["r1"].t = 2

C26_BulkTicketsInsideBulkRange ==
  \A n \in Nums :
    (tickets[n].exists /\ tickets[n].sale_type = "bulk")
    => (event.exists /\ InStoredBulk(event, n))

\* C26 witness: the function has grown the bulk range to 1-2 after an
\* upload, and a later upload has written tickets 1 and 2 as bulk tickets
C26_Witness ==
  /\ accepted # NoHull
  /\ BulkOf(event) = <<1, 2>>
  /\ up.uploads = 2 /\ up.pc = "idle"
  /\ tickets[1].exists /\ tickets[1].sale_type = "bulk"
  /\ tickets[2].exists /\ tickets[2].sale_type = "bulk"

\* C27: in every step, an event row with a bulk range keeps a bulk range,
\* and the bulk range after the step contains the bulk range before it.
C27_BulkRangeOnlyGrows ==
  [][(event.exists /\ event.bulk_sold_range_start # NULL
                   /\ event.bulk_sold_range_end # NULL)
       => /\ event'.exists
          /\ event'.bulk_sold_range_start # NULL
          /\ event'.bulk_sold_range_end # NULL
          /\ event'.bulk_sold_range_start <= event.bulk_sold_range_start
          /\ event'.bulk_sold_range_end >= event.bulk_sold_range_end]_vars

\* C27 witness: on an event that had a bulk range the function has accepted
\* the interval MaxNum-MaxNum and the bulk range has grown to 1-MaxNum
C27_Witness ==
  /\ rpc["r1"].pc = "idle" /\ rpc["r1"].res = "ok"
  /\ accepted = <<MaxNum, MaxNum>>
  /\ BulkOf(event) = <<1, MaxNum>>
  /\ event.bulk_buyer_name = RpcBuyer[1]

\* C28: once the range of the event is set (not 0-0), every ticket row has a
\* number inside the range the event row holds.
C28_TicketsInsideEventRange ==
  (event.exists /\ ~(event.range_start = 0 /\ event.range_end = 0))
  => \A n \in Nums :
       tickets[n].exists => (event.range_start <= n /\ n <= event.range_end)

\* C29: every ticket row with status available is of the cashier channel,
\* and no sale ends in the branch that turns away an available ticket of
\* the bulk channel.
C29_AvailableIsCashier ==
  /\ \A n \in Nums :
       (tickets[n].exists /\ tickets[n].status = "available")
       => tickets[n].sale_type = "cashier"
  /\ \A c \in Cashiers : cashier[c].res # "BulkTicketNotIndividuallySellable"

\* C30: the stats every loadStats sets, on both Dashboard pages, with and
\* without an event selected, satisfy soldTickets = bulkSold + cashierSold,
\* and bulkSold is the number of ticket rows with status sold of the bulk
\* channel at the time of the load.
C30_DashboardStats ==
  [][dashboard' # dashboard
       => /\ dashboard'.soldTickets = dashboard'.bulkSold + dashboard'.cashierSold
          /\ dashboard'.bulkSold = CountTickets({"sold"}, {"bulk"})]_vars

\* C8: two intervals inside the event range that overlap or are adjacent,
\* proposed to an event without bulk range in either order, are both
\* accepted and leave the bulk interval [min(starts), max(ends)].
C8_MergeOrderIndependent ==
  (/\ alloc.step = 2
   /\ BulkOf(alloc.e0) = <<NULL, NULL>>
   /\ Interval(alloc.a) /\ InsideEvent(alloc.e0, alloc.a)
   /\ Interval(alloc.b) /\ InsideEvent(alloc.e0, alloc.b)
   /\ alloc.a[1] <= alloc.b[2] + 1 /\ alloc.b[1] <= alloc.a[2] + 1)
  => /\ alloc.ab.kind = "ok" /\ alloc.ba.kind = "ok"
     /\ BulkOf(alloc.ab.ev) = <<Min(alloc.a[1], alloc.b[1]), Max(alloc.a[2], alloc.b[2])>>
     /\ BulkOf(alloc.ba.ev) = BulkOf(alloc.ab.ev)

\* C8 witness: two different adjacent intervals have been applied in both
\* orders to an event without bulk range
C8_Witness ==
  /\ alloc.step = 2
  /\ BulkOf(alloc.e0) = <<NULL, NULL>>
  /\ Interval(alloc.a) /\ InsideEvent(alloc.e0, alloc.a)
  /\ Interval(alloc.b) /\ InsideEvent(alloc.e0, alloc.b)
  /\ alloc.a[2] + 1 = alloc.b[1]
  /\ alloc.ab.kind = "ok"
  /\ BulkOf(alloc.ab.ev) = <<alloc.a[1], alloc.b[2]>>

\* C9: on an event with bulk interval [cs, ce], a proposal that passes the
\* range and interval validation is merged to [min, max] exactly when
\* start <= ce+1 and end >= cs-1; otherwise it fails with
\* DiscontinuousRange, leaves the row as it was and reports as gap size the
\* number of integers strictly between the two intervals.
C9_MergeOrGap ==
  (/\ alloc.step = 1
   /\ alloc.e0.bulk_sold_range_start # NULL
   /\ Interval(alloc.a) /\ InsideEvent(alloc.e0, alloc.a))
  => LET cs == alloc.e0.bulk_sold_range_start
         ce == alloc.e0.bulk_sold_range_end
         s == alloc.a[1]
         t == alloc.a[2]
     IN  IF s <= ce + 1 /\ t >= cs - 1
           THEN /\ alloc.ab.kind = "ok"
                /\ BulkOf(alloc.ab.ev) = <<Min(cs, s), Max(ce, t)>>
           ELSE /\ alloc.ab.kind = "DiscontinuousRange"
                /\ alloc.ab.gap = Between(cs, ce, s, t)
                /\ alloc.ab.ev = alloc.e0

\* C9 witness: a proposal two numbers away from the bulk interval has been
\* rejected with gap size 2
C9_Witness ==
  /\ alloc.step = 1
  /\ alloc.e0.bulk_sold_range_start = 1 /\ alloc.e0.bulk_sold_range_end = 1
  /\ alloc.a = <<4, 4>>
  /\ alloc.ab.kind = "DiscontinuousRange"
  /\ alloc.ab.gap = 2

\* C10: a proposal with start < rangeStart or end > rangeEnd fails with
\* OutOfBounds, an in-bounds proposal with start > end fails with
\* InvalidInterval, and neither changes the row.
C10_BoundsAndInterval ==
  alloc.step = 1 =>
    /\ (alloc.a[1] < alloc.e0.range_start \/ alloc.a[2] > alloc.e0.range_end)
         => (alloc.ab.kind = "OutOfBounds" /\ alloc.ab.ev = alloc.e0)
    /\ (alloc.b[1] < alloc.e0.range_start \/ alloc.b[2] > alloc.e0.range_end)
         => (alloc.ba.kind = "OutOfBounds" /\ alloc.ba.ev = alloc.e0)
    /\ (InsideEvent(alloc.e0, alloc.a) /\ alloc.a[1] > alloc.a[2])
         => (alloc.ab.kind = "InvalidInterval" /\ alloc.ab.ev = alloc.e0)

\* C10 witness: on one event row a proposal that ends after the event range
\* has failed with OutOfBounds and an in-bounds proposal with start > end
\* with InvalidInterval
C10_Witness ==
  /\ alloc.step = 1
  /\ alloc.e0.range_start = 1 /\ alloc.e0.range_end = AllocMax
  /\ alloc.b = <<1, AllocMax + 1>> /\ alloc.ba.kind = "OutOfBounds"
  /\ alloc.a[1] > alloc.a[2] /\ InsideEvent(alloc.e0, alloc.a)
  /\ alloc.ab.kind = "InvalidInterval"

====
